---- MODULE Spec2Model ----
(***************************************************************************)
(* Model of the BB Missing File Manager add-on (src/__init__.py): the      *)
(* scan for missing file references, relink by file / by folder, auto      *)
(* search, remove file and orphan purge, over a small host scene and a     *)
(* fixed directory tree.                                                   *)
(*                                                                         *)
(* Paths are structured values [rel, dir, name]: rel is the "//" prefix of *)
(* a blend-relative path, dir the sequence of directory components (kept   *)
(* in absolute form), name the basename split into stem, tile and ext.     *)
(* Two paths are the same stored string iff the three fields agree.        *)
(***************************************************************************)
EXTENDS Integers, Sequences, FiniteSets, TLC

\* ------------------------------------------------------------------ bounds
\* number of file-referencing datablocks / modifiers in the initial scene
MaxRefs == 2

\* ------------------------------------------------------------------- paths
UDIM == "<UDIM>"

MkName(s, t, e) == [stem |-> s, tile |-> t, ext |-> e]

EmptyName == MkName("", "", "")

MkPath(r, d, n) == [rel |-> r, dir |-> d, name |-> n]

\* the empty string
NoPath == MkPath(FALSE, <<>>, EmptyName)

\* tiles that the glob [0-9][0-9][0-9][0-9] matches
FourDigits == {"1001", "1002"}

\* "<UDIM>" in filepath
HasUdim(p) == p.name.tile = UDIM

\* bpy.path.abspath: resolves the "//" prefix against the blend directory
abspath(p) == IF p = NoPath THEN p ELSE [p EXCEPT !.rel = FALSE]

\* bpy.path.relpath: rewrites a path with the "//" prefix
relpath(p) == [p EXCEPT !.rel = TRUE]

\* os.path.basename / os.path.dirname / os.path.join(dir, filename)
basename(p) == p.name

dirname(p) == p.dir

join(d, n) == MkPath(FALSE, d, n)

\* ------------------------------------------------------------- file system
BlendDir == <<"proj">>

DirsOnDisk ==
  { <<"proj">>, <<"proj", "textures">>,
    <<"lib">>, <<"lib", "alt">>, <<"lib", "sub">>, <<"lib", "sub", "deep">>,
    <<"set[1]">> }

\* listing order of the sub-directories of a directory
Children(d) ==
  CASE d = <<"proj">> -> << <<"proj", "textures">> >>
    [] d = <<"lib">> -> << <<"lib", "alt">>, <<"lib", "sub">> >>
    [] d = <<"lib", "sub">> -> << <<"lib", "sub", "deep">> >>
    [] OTHER -> << >>

FilesOnDisk ==
  { join(<<"lib">>, MkName("u", "101", ".png")),
    join(<<"lib", "alt">>, MkName("a", "", ".png")),
    join(<<"lib", "alt">>, MkName("u", "1001", ".png")),
    join(<<"set[1]">>, MkName("u", "1002", ".png")),
    join(<<"lib", "sub", "deep">>, MkName("a", "", ".png")),
    join(<<"lib", "sub", "deep">>, MkName("b", "", ".wav")),
    join(<<"proj", "textures">>, MkName("b", "", ".wav")) }

\* os.path.isdir on an absolute path (a folder is picked with a trailing
\* separator, so its basename is empty)
isdir(p) == p # NoPath /\ p.name = EmptyName /\ p.dir \in DirsOnDisk

\* os.path.exists on an absolute path
exists(p) == p \in FilesOnDisk \/ isdir(p)

\* the names a path component matches when glob reads it as a pattern: a
\* component without magic characters matches itself, and in "set[1]" the
\* brackets are a character class
GlobComponent(c) ==
  CASE c = "set[1]" -> {"set1"}
    [] OTHER -> {c}

\* glob.glob(pattern) with <UDIM> replaced by [0-9][0-9][0-9][0-9]; the
\* whole path is the pattern
globUdim(p) ==
  { f \in FilesOnDisk : /\ Len(f.dir) = Len(p.dir)
                        /\ \A i \in DOMAIN p.dir : f.dir[i] \in GlobComponent(p.dir[i])
                        /\ f.name.stem \in GlobComponent(p.name.stem)
                        /\ f.name.ext \in GlobComponent(p.name.ext)
                        /\ f.name.tile \in FourDigits }

check_udim_exists(filepath) ==
  IF ~HasUdim(filepath)
  THEN exists(abspath(filepath))
  ELSE globUdim(abspath(filepath)) # {}

\* find_udim_file returns a path or None
None == MkPath(FALSE, <<"None">>, EmptyName)

find_udim_file(filepath, search_directory) ==
  IF ~HasUdim(filepath)
  THEN LET potential_path == join(search_directory, basename(filepath))
       IN IF exists(potential_path) THEN potential_path ELSE None
  ELSE IF globUdim(join(search_directory, basename(filepath))) # {}
       THEN join(search_directory, basename(filepath))
       ELSE None

\* os.walk(top): top-down, sub-directories in listing order
RECURSIVE walk(_)
RECURSIVE walkAll(_)
walkAll(ds) == IF ds = << >> THEN << >> ELSE walk(Head(ds)) \o walkAll(Tail(ds))

\* a walk that does not descend into the sub-directories
walkTop(top) == <<top>>

walk(top) == <<top>> \o walkAll(Children(top))

\* ------------------------------------------------------------------- state
VARIABLES
  data,           \* bpy.data: images, movieclips, sounds, materials, objects
  is_saved,       \* bpy.data.filepath is not empty
  missing_files,  \* context.scene.missing_files
  result          \* what the last operator did and returned

vars == <<data, is_saved, missing_files, result>>

NoName == << >>

\* library is the library's filepath, "" standing for None
NoLibrary == ""

LibraryPath == "//assets.blend"

Range(s) == { s[i] : i \in DOMAIN s }

\* the datablock of a collection with a given name
ByName(coll, name) == CHOOSE x \in Range(coll) : x.name = name

Names(coll) == { x.name : x \in Range(coll) }

\* ---------------------------------------------------------------- scanning
\* missing_files is a dict: a sequence of entries in insertion order
HasKey(missing, filepath) == \E i \in DOMAIN missing : missing[i].filepath = filepath

get(entry, key, default) == IF key \in DOMAIN entry THEN entry[key] ELSE default

\* objects whose mesh has the material in a slot (lines 139-142)
ObjectsUsing(d, material) ==
  { obj.name : obj \in { o \in Range(d.objects) :
        /\ o.type = "MESH"
        /\ o.materials # << >>
        /\ material.name \in { o.materials[i] : i \in DOMAIN o.materials } \ {NoName} } }

\* the dict insertion without the "not in missing_files" test
AddAlways(missing, entry) == Append(missing, entry)

AddIfAbsent(missing, entry) ==
  IF ~HasKey(missing, entry.filepath) THEN Append(missing, entry) ELSE missing

\* missing_files[filepath][...].add(...) of lines 136-142
Attribute(missing, filepath, material, node, objs) ==
  [ i \in DOMAIN missing |->
      IF missing[i].filepath = filepath
      THEN [missing[i] EXCEPT !.materials = @ \cup {material.name},
                              !.node_names = @ \cup {node.name},
                              !.objects = @ \cup objs]
      ELSE missing[i] ]

\* body of the IMAGE loop for one node of one material
ScanImageNode(d, missing, material, node) ==
  IF node.type = "TEX_IMAGE" /\ node.image # NoName
  THEN LET image == ByName(d.images, node.image)
       IN IF image.packed_file
          THEN missing
          ELSE IF image.filepath # NoPath /\ ~check_udim_exists(image.filepath)
               THEN LET is_linked == image.library # NoLibrary
                        entry == [filepath |-> image.filepath,
                                  file_name |-> image.name,
                                  file_type |-> IF is_linked THEN "LINKED" ELSE "IMAGE",
                                  materials |-> {}, objects |-> {}, node_names |-> {},
                                  is_linked |-> is_linked,
                                  library_path |-> IF is_linked THEN image.library ELSE ""]
                    IN Attribute(AddIfAbsent(missing, entry), image.filepath,
                                 material, node, ObjectsUsing(d, material))
               ELSE missing
  ELSE missing

\* body of the MOVIE loop for one node of one material
ScanMovieNode(d, missing, material, node) ==
  IF node.type = "TEX_IMAGE" /\ node.image # NoName
     /\ ByName(d.images, node.image).source = "MOVIE"
  THEN LET image == ByName(d.images, node.image)
       IN IF image.packed_file
          THEN missing
          ELSE IF image.filepath # NoPath /\ ~check_udim_exists(image.filepath)
               THEN AddIfAbsent(missing,
                      [filepath |-> image.filepath, file_name |-> image.name,
                       file_type |-> "MOVIE",
                       materials |-> {}, objects |-> {}, node_names |-> {}])
               ELSE missing
  ELSE missing

ScanClip(missing, clip) ==
  IF clip.filepath # NoPath /\ ~exists(abspath(clip.filepath))
  THEN AddIfAbsent(missing,
         [filepath |-> clip.filepath, file_name |-> clip.name,
          file_type |-> "MOVIE CLIP",
          materials |-> {}, objects |-> {}, node_names |-> {}])
  ELSE missing

ScanSound(missing, sound) ==
  IF sound.filepath # NoPath /\ ~exists(abspath(sound.filepath))
  THEN AddIfAbsent(missing,
         [filepath |-> sound.filepath, file_name |-> sound.name,
          file_type |-> "SOUND",
          materials |-> {}, objects |-> {}, node_names |-> {}])
  ELSE missing

\* the display name of a cache file (lines 201-207)
CacheFileName(modifier) ==
  IF basename(modifier.filepath) # EmptyName
  THEN <<"file", basename(modifier.filepath)>>
  ELSE IF modifier.filepath.dir # << >>
       THEN <<"dir", modifier.filepath.dir[Len(modifier.filepath.dir)]>>
       ELSE <<"cache", modifier.name>>

ScanModifier(missing, obj, modifier) ==
  IF modifier.type = "MESH_CACHE"
     /\ modifier.filepath # NoPath /\ ~exists(abspath(modifier.filepath))
  THEN AddIfAbsent(missing,
         [filepath |-> modifier.filepath,
          file_name |-> CacheFileName(modifier),
          file_type |-> "CACHE",
          materials |-> {}, objects |-> {obj.name}, node_names |-> {},
          modifier_name |-> modifier.name])
  ELSE missing

\* the loops: for outer in coll: for inner in outer.<field>: body
RECURSIVE ImageLoop(_, _, _, _)
ImageLoop(d, missing, m, n) ==
  IF m > Len(d.materials) THEN missing
  ELSE LET material == d.materials[m]
       IN IF ~(material.use_nodes /\ material.has_node_tree) \/ n > Len(material.nodes)
          THEN ImageLoop(d, missing, m + 1, 1)
          ELSE ImageLoop(d, ScanImageNode(d, missing, material, material.nodes[n]), m, n + 1)

RECURSIVE MovieLoop(_, _, _, _)
MovieLoop(d, missing, m, n) ==
  IF m > Len(d.materials) THEN missing
  ELSE LET material == d.materials[m]
       IN IF ~(material.use_nodes /\ material.has_node_tree) \/ n > Len(material.nodes)
          THEN MovieLoop(d, missing, m + 1, 1)
          ELSE MovieLoop(d, ScanMovieNode(d, missing, material, material.nodes[n]), m, n + 1)

RECURSIVE ClipLoop(_, _, _)
ClipLoop(d, missing, i) ==
  IF i > Len(d.movieclips) THEN missing
  ELSE ClipLoop(d, ScanClip(missing, d.movieclips[i]), i + 1)

RECURSIVE SoundLoop(_, _, _)
SoundLoop(d, missing, i) ==
  IF i > Len(d.sounds) THEN missing
  ELSE SoundLoop(d, ScanSound(missing, d.sounds[i]), i + 1)

RECURSIVE CacheLoop(_, _, _, _)
CacheLoop(d, missing, o, k) ==
  IF o > Len(d.objects) THEN missing
  ELSE LET obj == d.objects[o]
       IN IF k > Len(obj.modifiers)
          THEN CacheLoop(d, missing, o + 1, 1)
          ELSE CacheLoop(d, ScanModifier(missing, obj, obj.modifiers[k]), o, k + 1)

\* the dict built by lines 104-217
ScanDict(d) ==
  CacheLoop(d, SoundLoop(d, ClipLoop(d, MovieLoop(d, ImageLoop(d, << >>, 1, 1), 1, 1), 1), 1), 1, 1)

\* an item whose is_used is left at the property's default (True)
MakeItemDefaultUsed(entry) ==
  [filepath |-> entry.filepath,
   file_name |-> entry.file_name,
   file_type |-> entry.file_type,
   material_names |-> entry.materials,
   object_names |-> entry.objects,
   node_names |-> entry.node_names,
   is_used |-> TRUE,
   is_linked |-> get(entry, "is_linked", FALSE),
   library_path |-> get(entry, "library_path", ""),
   new_filepath |-> NoPath]

\* one MissingFileItem from a dict entry (lines 221-231); the three name
\* strings are kept as the sets they are joined from
MakeItem(entry) ==
  [filepath |-> entry.filepath,
   file_name |-> entry.file_name,
   file_type |-> entry.file_type,
   material_names |-> entry.materials,
   object_names |-> entry.objects,
   node_names |-> entry.node_names,
   is_used |-> Cardinality(entry.objects) > 0,
   is_linked |-> get(entry, "is_linked", FALSE),
   library_path |-> get(entry, "library_path", ""),
   new_filepath |-> NoPath]

\* a scan that updates the collection in place: an item whose path is still
\* missing keeps the new path typed for it
ScanItemsInPlace(old_items, d) ==
  LET missing == ScanDict(d)
      kept(fp) == IF \E j \in DOMAIN old_items : old_items[j].filepath = fp
                  THEN (CHOOSE x \in Range(old_items) : x.filepath = fp).new_filepath
                  ELSE NoPath
  IN [ i \in DOMAIN missing |->
         [MakeItem(missing[i]) EXCEPT !.new_filepath = kept(missing[i].filepath)] ]

\* the collection after context.scene.missing_files.clear() and the add()s
ScanItems(old_items, d) ==
  LET missing == ScanDict(d)
  IN [ i \in DOMAIN missing |-> MakeItem(missing[i]) ]

\* ------------------------------------------------------------ initial scene
\* original locations of the referenced files; the directory "old" is gone,
\* and beside the tiled image only a file with a three-digit tile is left
PathA == MkPath(TRUE, <<"proj", "old">>, MkName("a", "", ".png"))

PathU == MkPath(FALSE, <<"lib">>, MkName("u", UDIM, ".png"))

PathB == MkPath(FALSE, <<"old">>, MkName("b", "", ".wav"))

PathZ == MkPath(FALSE, <<"old">>, MkName("z", "", ".mov"))

\* One file reference of the initial scene.  The plain flavour is a local,
\* unpacked datablock in use; every other flavour changes one attribute.
ImageRefs ==
  { [kind |-> "image", filepath |-> PathA, library |-> l, packed |-> k,
     source |-> s, usage |-> u] :
       <<l, k, s, u>> \in { <<NoLibrary, FALSE, "FILE", "object">>,
                            <<LibraryPath, FALSE, "FILE", "object">>,
                            <<NoLibrary, TRUE, "FILE", "object">>,
                            <<NoLibrary, FALSE, "MOVIE", "object">>,
                            <<NoLibrary, FALSE, "FILE", "material">>,
                            <<NoLibrary, FALSE, "FILE", "none">> } }
  \cup
  { [kind |-> "image", filepath |-> PathU, library |-> NoLibrary, packed |-> FALSE,
     source |-> "TILED", usage |-> "object"] }

SoundRefs ==
  { [kind |-> "sound", filepath |-> PathB, library |-> l, packed |-> k, users |-> 1] :
       <<l, k>> \in { <<NoLibrary, FALSE>>, <<LibraryPath, FALSE>>, <<NoLibrary, TRUE>> } }

ClipRefs ==
  { [kind |-> "clip", filepath |-> PathZ, library |-> NoLibrary, users |-> 1] }

ModifierRefs ==
  { [kind |-> "modifier", filepath |-> PathB, library |-> NoLibrary,
     type |-> "MESH_CACHE", in_scene |-> s] : s \in BOOLEAN }

Refs == ImageRefs \cup SoundRefs \cup ClipRefs \cup ModifierRefs

RefSeqs == UNION { [1..n -> Refs] : n \in 0..MaxRefs }

SelectKind(refs, kinds) == { i \in DOMAIN refs : refs[i].kind \in kinds }

\* the elements f(i), i in idx, as a sequence in increasing order of index
RECURSIVE SeqOf(_, _)
SeqOf(f, idx) ==
  IF idx = {} THEN << >>
  ELSE LET i == CHOOSE j \in idx : \A k \in idx : j <= k
       IN <<f[i]>> \o SeqOf(f, idx \ {i})

\* the host scene holding the references refs: an image sits in a TEX_IMAGE
\* node of its own material, which a mesh object uses (usage "object": an
\* object of the scene, "hidden": an object in no scene, "material": no
\* object, "none": no material either); a modifier sits on its own object
BuildData(refs) ==
  LET rank(i) == Cardinality({ j \in DOMAIN refs : j <= i /\ refs[j].kind = refs[i].kind })
      img == SelectKind(refs, {"image"})
      mat == { i \in img : refs[i].usage \in {"material", "object", "hidden"} }
      mesh == { i \in img : refs[i].usage \in {"object", "hidden"} }
      mods == SelectKind(refs, {"modifier"})
  IN [images |-> SeqOf([ i \in img |->
                   [name |-> <<"img", rank(i)>>, filepath |-> refs[i].filepath,
                    packed_file |-> refs[i].packed, library |-> refs[i].library,
                    source |-> refs[i].source] ], img),
      movieclips |-> SeqOf([ i \in SelectKind(refs, {"clip"}) |->
                   [name |-> <<"clip", rank(i)>>, filepath |-> refs[i].filepath,
                    library |-> refs[i].library, users |-> refs[i].users] ],
                   SelectKind(refs, {"clip"})),
      sounds |-> SeqOf([ i \in SelectKind(refs, {"sound"}) |->
                   [name |-> <<"sound", rank(i)>>, filepath |-> refs[i].filepath,
                    packed_file |-> refs[i].packed, library |-> refs[i].library,
                    users |-> refs[i].users] ],
                   SelectKind(refs, {"sound"})),
      materials |-> SeqOf([ i \in mat |->
                   [name |-> <<"mat", rank(i)>>, use_nodes |-> TRUE, has_node_tree |-> TRUE,
                    nodes |-> << [name |-> "Image Texture", type |-> "TEX_IMAGE",
                                  image |-> <<"img", rank(i)>>] >>] ], mat),
      objects |-> SeqOf([ i \in mesh \cup mods |->
                   IF i \in mesh
                   THEN [name |-> <<"mesh", rank(i)>>, type |-> "MESH", library |-> NoLibrary,
                         in_scene |-> refs[i].usage = "object",
                         materials |-> << <<"mat", rank(i)>> >>,
                         modifiers |-> << >>]
                   ELSE [name |-> <<"cached", rank(i)>>, type |-> "MESH",
                         library |-> refs[i].library, in_scene |-> refs[i].in_scene,
                         materials |-> << >>,
                         modifiers |-> << [name |-> "MeshCache", type |-> refs[i].type,
                                           filepath |-> refs[i].filepath] >>] ],
                   mesh \cup mods)]

\* what an operator reports: the value it returns, the level of its report
\* and the counts of its message
Result(op, index, returned, level, updated, auto, linked) ==
  [op |-> op, index |-> index, returned |-> returned, level |-> level,
   updated |-> updated, auto |-> auto, linked |-> linked]

NoResult == Result("none", 0, "none", "none", 0, 0, 0)

\* a saved blend file, nothing scanned yet
Init ==
  /\ \E refs \in RefSeqs : data = BuildData(refs)
  /\ is_saved = TRUE
  /\ missing_files = << >>
  /\ result = NoResult

\* the same scenes in a blend file that was never saved
InitUnsaved ==
  /\ \E refs \in RefSeqs : data = BuildData(refs)
  /\ is_saved = FALSE
  /\ missing_files = << >>
  /\ result = NoResult

\* scenes for the name comparison of the relink dialog: local images in use
\* whose original names differ from the file a.png by case, by a missing
\* extension, by the extension, or by the name
NameRefs ==
  { [kind |-> "image", filepath |-> MkPath(FALSE, <<"old">>, n), library |-> NoLibrary,
     packed |-> FALSE, source |-> "FILE", usage |-> "object"] :
       n \in { MkName("a", "", ".png"), MkName("A", "", ".PNG"), MkName("a", "", ""),
               MkName("a", "", ".jpg"), MkName("B", "", "") } }

NameSeqs == UNION { [1..n -> NameRefs] : n \in 0..MaxRefs }

InitNames ==
  /\ \E refs \in NameSeqs : data = BuildData(refs)
  /\ is_saved = TRUE
  /\ missing_files = << >>
  /\ result = NoResult

\* scenes for the purge: an image whose only user chain ends at an object in
\* no scene, an image of a material without users, an image in use, and
\* cached objects in and out of the scene
PurgeRefs ==
  { [kind |-> "image", filepath |-> fu[1], library |-> NoLibrary, packed |-> FALSE,
     source |-> "FILE", usage |-> fu[2]] :
       fu \in { <<PathA, "hidden">>, <<PathU, "material">>, <<PathA, "object">> } }
  \cup ModifierRefs

PurgeSeqs == UNION { [1..n -> PurgeRefs] : n \in 0..MaxRefs }

InitPurge ==
  /\ \E refs \in PurgeSeqs : data = BuildData(refs)
  /\ is_saved = TRUE
  /\ missing_files = << >>
  /\ result = NoResult

\* scenes for the auto search, in a blend file that is saved or not: an
\* image whose file is nowhere below the blend file's directory, and a sound,
\* a cache and a clip
SearchRefs ==
  { r \in ImageRefs : r.filepath = PathA /\ r.library = NoLibrary /\ ~r.packed
                        /\ r.source = "FILE" /\ r.usage = "object" }
  \cup { r \in SoundRefs : r.library = NoLibrary /\ ~r.packed }
  \cup ClipRefs
  \cup { r \in ModifierRefs : r.in_scene }

SearchSeqs == UNION { [1..n -> SearchRefs] : n \in 0..MaxRefs }

InitSearch ==
  /\ \E refs \in SearchSeqs : data = BuildData(refs)
  /\ is_saved \in BOOLEAN
  /\ missing_files = << >>
  /\ result = NoResult

\* ---------------------------------------------------------- relink helpers
Min(S) == CHOOSE x \in S : \A y \in S : x <= y

\* indices of the datablocks of a collection that store the path
Storing(coll, old_filepath) == { i \in DOMAIN coll : coll[i].filepath = old_filepath }

Local(coll, idx) == { i \in idx : coll[i].library = NoLibrary }

\* datablocks that keep the path they had
KeepPaths(coll, idx, new_filepath) == coll

\* coll[i].filepath = new_filepath for every i in idx
SetPaths(coll, idx, new_filepath) ==
  [ i \in DOMAIN coll |->
      IF i \in idx THEN [coll[i] EXCEPT !.filepath = new_filepath] ELSE coll[i] ]

\* modifiers with a filepath attribute that store the path, as <<object, modifier>>
ModifiersStoring(objects, old_filepath) ==
  { om \in UNION { {o} \X DOMAIN objects[o].modifiers : o \in DOMAIN objects } :
      objects[om[1]].modifiers[om[2]].filepath = old_filepath }

\* the modifier loop left out: no modifier is written
KeepModifierPaths(objects, old_filepath, new_filepath) == objects

SetModifierPaths(objects, old_filepath, new_filepath) ==
  [ o \in DOMAIN objects |->
      [objects[o] EXCEPT !.modifiers =
          [ k \in DOMAIN @ |->
              IF @[k].filepath = old_filepath
              THEN [@[k] EXCEPT !.filepath = new_filepath] ELSE @[k] ]] ]

\* images the folder relink writes, and those it counts (lines 398-405)
FolderImages(images, old_filepath) == Local(images, Storing(images, old_filepath))

\* the clip and sound loops left out of the relink of found files
NoOthers(coll, old_filepath) == {}

\* clips or sounds the folder relink writes (lines 408-423)
FolderOthers(coll, old_filepath) == Local(coll, Storing(coll, old_filepath))

\* the clip and sound loops left out of the directory-scoped auto-relink
NoAutoOthers(coll, old_path) == {}

\* clips or sounds the directory-scoped auto-relink writes (lines 544-558)
AutoOthers(coll, old_path) == Storing(coll, old_path)

\* one round of "update the datablocks" shared by the folder relink, the
\* directory-scoped auto-relink and auto search: st = [data, count]
RelinkRound(st, old_filepath, found_path, clipIdx, soundIdx, failing) ==
  LET d == st.data
      img == FolderImages(d.images, old_filepath)
      mods == ModifiersStoring(d.objects, old_filepath)
  IN [data |-> [d EXCEPT
                  !.images = SetPaths(@, img, found_path),
                  !.movieclips = SetPaths(@, clipIdx, found_path),
                  !.sounds = SetPaths(@, soundIdx, found_path),
                  !.objects = SetModifierPaths(@, old_filepath, found_path)],
      count |-> st.count
                + Cardinality({ i \in img : d.images[i].name \notin failing })
                + Cardinality(clipIdx) + Cardinality(soundIdx) + Cardinality(mods)]

\* ------------------------------------------------------- recursive search
\* found_files after visiting one directory (lines 360-375, 670-686)
\* a visit without the "already found" test: a later match replaces the
\* path found before
RECURSIVE VisitDirLast(_, _, _, _, _)
VisitDirLast(found, items, root, saved, k) ==
  IF k > Len(items) THEN found
  ELSE LET fp == items[k].filepath
           found_path == find_udim_file(fp, root)
       IN IF found_path = None
          THEN VisitDirLast(found, items, root, saved, k + 1)
          ELSE VisitDirLast([ q \in DOMAIN found \cup {fp} |->
                                IF q = fp
                                THEN IF saved THEN relpath(found_path) ELSE found_path
                                ELSE found[q] ],
                            items, root, saved, k + 1)

RECURSIVE VisitDir(_, _, _, _, _)
VisitDir(found, items, root, saved, k) ==
  IF k > Len(items) THEN found
  ELSE LET fp == items[k].filepath
           found_path == find_udim_file(fp, root)
       IN IF fp \in DOMAIN found \/ found_path = None
          THEN VisitDir(found, items, root, saved, k + 1)
          ELSE VisitDir([ q \in DOMAIN found \cup {fp} |->
                            IF q = fp
                            THEN IF saved THEN relpath(found_path) ELSE found_path
                            ELSE found[q] ],
                        items, root, saved, k + 1)

EmptyDict == [ q \in {} |-> NoPath ]

RECURSIVE SearchDirs(_, _, _, _)
SearchDirs(found, items, dirs, saved) ==
  IF dirs = << >> THEN found
  ELSE SearchDirs(VisitDir(found, items, Head(dirs), saved, 1), items, Tail(dirs), saved)

\* "relink all found files" (lines 390-433, 701-753)
RECURSIVE RelinkFound(_, _, _, _, _)
RelinkFound(st, items, found, failing, k) ==
  IF k > Len(items) THEN st
  ELSE LET old_filepath == items[k].filepath
       IN IF old_filepath \notin DOMAIN found
          THEN RelinkFound(st, items, found, failing, k + 1)
          ELSE RelinkFound(
                 RelinkRound(st, old_filepath, found[old_filepath],
                             FolderOthers(st.data.movieclips, old_filepath),
                             FolderOthers(st.data.sounds, old_filepath), failing),
                 items, found, failing, k + 1)

\* ------------------------------------------------------------ relink_single
\* str.lower() on the name parts that occur
Lower(str) ==
  CASE str = "A" -> "a"
    [] str = "B" -> "b"
    [] str = ".PNG" -> ".png"
    [] OTHER -> str

\* os.path.splitext of a basename: <<name, ext>>, the name as <<stem, tile>>
splitext(n) ==
  IF n.ext # "" THEN << <<n.stem, n.tile>>, n.ext >>
  ELSE IF n.tile # "" THEN << <<n.stem, "">>, n.tile >>
  ELSE << <<n.stem, "">>, "" >>

LowerName(nm) == <<Lower(nm[1]), Lower(nm[2])>>

\* invoke comparing the names as typed, without lower()
InvokeDecisionCaseSensitive(item) ==
  LET new_path == abspath(item.new_filepath)
      old == splitext(basename(item.filepath))
      new == splitext(basename(item.new_filepath))
      name_different == old[1] # new[1]
      ext_different == old[2] # new[2]
  IN IF item.new_filepath = NoPath THEN "ERROR"
     ELSE IF isdir(new_path) THEN "EXECUTE"
     ELSE IF HasUdim(item.new_filepath) /\ ~check_udim_exists(item.new_filepath) THEN "ERROR"
     ELSE IF ~HasUdim(item.new_filepath) /\ ~exists(new_path) THEN "ERROR"
     ELSE IF old[2] = "" /\ old[1] = new[1] THEN "EXECUTE"
     ELSE IF name_different \/ ext_different THEN "DIALOG"
     ELSE "EXECUTE"

\* FILE_OT_relink_single.invoke: "ERROR" (cancelled with an error report),
\* "DIALOG" (the mismatch dialog is shown) or "EXECUTE"
InvokeDecision(item) ==
  LET new_path == abspath(item.new_filepath)
      old == splitext(basename(item.filepath))
      new == splitext(basename(item.new_filepath))
      name_different == LowerName(old[1]) # LowerName(new[1])
      ext_different == Lower(old[2]) # Lower(new[2])
  IN IF item.new_filepath = NoPath THEN "ERROR"
     ELSE IF isdir(new_path) THEN "EXECUTE"
     ELSE IF HasUdim(item.new_filepath) /\ ~check_udim_exists(item.new_filepath) THEN "ERROR"
     ELSE IF ~HasUdim(item.new_filepath) /\ ~exists(new_path) THEN "ERROR"
     ELSE IF old[2] = "" /\ LowerName(old[1]) = LowerName(new[1]) THEN "EXECUTE"
     ELSE IF name_different \/ ext_different THEN "DIALOG"
     ELSE "EXECUTE"

\* what an operator leaves behind
Outcome(d, items, res) == [data |-> d, missing_files |-> items, result |-> res]

\* the folder branch of execute (lines 341-444)
RelinkFolder(d, items, index, saved, failing) ==
  LET item == items[index]
      new_path == abspath(item.new_filepath)
      found_files == SearchDirs(EmptyDict, items, walk(new_path.dir), saved)
  IN IF item.filepath \notin DOMAIN found_files
     THEN Outcome(d, items, Result("relink_folder", index, "CANCELLED", "ERROR", 0, 0, 0))
     ELSE LET st == RelinkFound([data |-> d, count |-> 0], items, found_files, failing, 1)
          IN Outcome(st.data, ScanItems(items, st.data),
                     Result("relink_folder", index, "FINISHED", "INFO",
                            st.count, Cardinality(DOMAIN found_files), 0))

\* the image loop of the file branch (lines 457-472): the images written, up
\* to and including the first one whose reload raises
FileImages(images, old_filepath, failing) ==
  LET loc == Local(images, Storing(images, old_filepath))
      bad == { i \in loc : images[i].name \in failing }
  IN IF bad = {} THEN loc ELSE { i \in loc : i <= Min(bad) }

\* the directory-scoped auto-relink (lines 508-567)
RECURSIVE AutoRelink(_, _, _, _, _, _)
AutoRelink(st, items, old_filepath, new_dir, failing, k) ==
  IF k > Len(items) THEN st
  ELSE LET old_path == items[k].filepath
           potential_path == join(new_dir, basename(old_path))
           file_exists == IF HasUdim(potential_path)
                          THEN check_udim_exists(potential_path)
                          ELSE exists(potential_path)
       IN IF old_path = old_filepath \/ ~file_exists
          THEN AutoRelink(st, items, old_filepath, new_dir, failing, k + 1)
          ELSE AutoRelink(
                 RelinkRound(st, old_path, relpath(potential_path),
                             AutoOthers(st.data.movieclips, old_path),
                             AutoOthers(st.data.sounds, old_path), failing),
                 items, old_filepath, new_dir, failing, k + 1)

\* the file branch of execute (lines 447-582)
RelinkFile(d, items, index, saved, failing) ==
  LET item == items[index]
      new_path == abspath(item.new_filepath)
      file_exists == IF HasUdim(item.new_filepath)
                     THEN check_udim_exists(item.new_filepath)
                     ELSE exists(new_path)
      old_filepath == item.filepath
      img == Storing(d.images, old_filepath)
      written == FileImages(d.images, old_filepath, failing)
      raised == { i \in written : d.images[i].name \in failing }
      clips == Storing(d.movieclips, old_filepath)
      sounds == Storing(d.sounds, old_filepath)
      mods == ModifiersStoring(d.objects, old_filepath)
      d1 == [d EXCEPT !.images = SetPaths(@, written, item.new_filepath)]
      d2 == [d1 EXCEPT
               !.movieclips = SetPaths(@, Local(@, clips), item.new_filepath),
               !.sounds = SetPaths(@, Local(@, sounds), item.new_filepath),
               !.objects = SetModifierPaths(@, old_filepath, item.new_filepath)]
      updated_count == Cardinality(written) + Cardinality(Local(d.movieclips, clips))
                       + Cardinality(Local(d.sounds, sounds)) + Cardinality(mods)
      linked_count == Cardinality(img \ Local(d.images, img))
                      + Cardinality(clips \ Local(d.movieclips, clips))
                      + Cardinality(sounds \ Local(d.sounds, sounds))
      new_dir == dirname(abspath(item.new_filepath))
      st == IF new_dir \in DirsOnDisk
            THEN AutoRelink([data |-> d2, count |-> 0], items, old_filepath,
                            new_dir, failing, 1)
            ELSE [data |-> d2, count |-> 0]
  IN IF ~file_exists
     THEN Outcome(d, items, Result("relink_file", index, "CANCELLED", "ERROR", 0, 0, 0))
     ELSE IF raised # {}
     THEN Outcome(d1, items,
                  Result("relink_file", index, "CANCELLED", "ERROR",
                         Cardinality(written \ raised), 0,
                         Cardinality({ i \in img \ Local(d.images, img) : i < Min(raised) })))
     ELSE Outcome(st.data, ScanItems(items, st.data),
                  Result("relink_file", index, "FINISHED",
                         IF linked_count > 0 THEN "WARNING" ELSE "INFO",
                         updated_count, st.count, linked_count))

\* FILE_OT_relink_single.execute
ExecuteRelink(d, items, index, saved, failing) ==
  IF items[index].new_filepath = NoPath
  THEN Outcome(d, items, Result("relink", index, "CANCELLED", "ERROR", 0, 0, 0))
  ELSE IF isdir(abspath(items[index].new_filepath))
       THEN RelinkFolder(d, items, index, saved, failing)
       ELSE RelinkFile(d, items, index, saved, failing)

\* -------------------------------------------------------------- auto_search
ConventionalSubdirs ==
  <<"textures", "Textures", "tex", "images", "Images", "maps", "Maps">>

\* search_paths (lines 634-645), each walked in turn
RECURSIVE SubdirWalks(_)
SubdirWalks(k) ==
  IF k > Len(ConventionalSubdirs) THEN << >>
  ELSE (IF Append(BlendDir, ConventionalSubdirs[k]) \in DirsOnDisk
        THEN walk(Append(BlendDir, ConventionalSubdirs[k])) ELSE << >>)
       \o SubdirWalks(k + 1)

SearchedDirs == walk(BlendDir) \o SubdirWalks(1)

\* an auto search that goes on without a saved blend file
ExecuteAutoSearchUnchecked(d, items, index, saved, failing) ==
  LET item == items[index]
      found_files == SearchDirs(EmptyDict, items, SearchedDirs, saved)
      st == RelinkFound([data |-> d, count |-> 0], items, found_files, failing, 1)
      primary_found == item.filepath \in DOMAIN found_files
  IN IF basename(item.filepath) = EmptyName
     THEN Outcome(d, items, Result("auto_search", index, "CANCELLED", "ERROR", 0, 0, 0))
     ELSE Outcome(st.data, ScanItems(items, st.data),
                  IF ~primary_found
                  THEN Result("auto_search", index, "CANCELLED", "WARNING", 0, 0, 0)
                  ELSE Result("auto_search", index, "FINISHED", "INFO",
                              st.count, Cardinality(DOMAIN found_files), 0))

\* FILE_OT_auto_search.execute
ExecuteAutoSearch(d, items, index, saved, failing) ==
  LET item == items[index]
      found_files == SearchDirs(EmptyDict, items, SearchedDirs, saved)
      st == RelinkFound([data |-> d, count |-> 0], items, found_files, failing, 1)
      primary_found == item.filepath \in DOMAIN found_files
  IN IF basename(item.filepath) = EmptyName
     THEN Outcome(d, items, Result("auto_search", index, "CANCELLED", "ERROR", 0, 0, 0))
     ELSE IF ~saved
     THEN Outcome(d, items, Result("auto_search", index, "CANCELLED", "ERROR", 0, 0, 1))
     ELSE Outcome(st.data, ScanItems(items, st.data),
                  IF ~primary_found
                  THEN Result("auto_search", index, "CANCELLED", "WARNING", 0, 0, 0)
                  ELSE Result("auto_search", index, "FINISHED", "INFO",
                              st.count, Cardinality(DOMAIN found_files), 0))

\* -------------------------------------------------------------- remove_file
\* a collection without the datablocks of the given indices
Without(coll, idx) == SeqOf(coll, DOMAIN coll \ idx)

\* node.image of every node that used a removed image becomes None
Unlink(materials, removed) ==
  [ m \in DOMAIN materials |->
      [materials[m] EXCEPT !.nodes =
          [ n \in DOMAIN @ |->
              IF @[n].image \in removed THEN [@[n] EXCEPT !.image = NoName] ELSE @[n] ]] ]

\* FILE_OT_remove_file.execute
ExecuteRemove(d, items, index) ==
  LET item == items[index]
      img == Storing(d.images, item.filepath)
      clips == Storing(d.movieclips, item.filepath)
      sounds == Storing(d.sounds, item.filepath)
      d1 == [d EXCEPT
               !.images = Without(@, img),
               !.movieclips = Without(@, clips),
               !.sounds = Without(@, sounds),
               !.materials = Unlink(@, { d.images[i].name : i \in img })]
  IN Outcome(d1, ScanItems(items, d1),
             Result("remove_file", index, "FINISHED", "INFO",
                    Cardinality(img) + Cardinality(clips) + Cardinality(sounds), 0, 0))

\* -------------------------------------------------------- purge_all_orphans
\* users of a material: the slots of the objects' meshes that hold it
MaterialUsers(d, name) ==
  Cardinality({ os \in UNION { {o} \X DOMAIN d.objects[o].materials : o \in DOMAIN d.objects } :
                  d.objects[os[1]].materials[os[2]] = name })

\* users of an image: the nodes that hold it
ImageUsers(materials, name) ==
  Cardinality({ mn \in UNION { {m} \X DOMAIN materials[m].nodes : m \in DOMAIN materials } :
                  materials[mn[1]].nodes[mn[2]].image = name })

\* bpy.ops.outliner.orphans_purge(do_recursive=True): datablocks without
\* users go, then those that only the removed ones used
orphans_purge(d) ==
  LET mats == Without(d.materials,
                { m \in DOMAIN d.materials : MaterialUsers(d, d.materials[m].name) = 0 })
  IN [d EXCEPT
        !.materials = mats,
        !.images = Without(@, { i \in DOMAIN @ : ImageUsers(mats, @[i].name) = 0 }),
        !.movieclips = Without(@, { i \in DOMAIN @ : @[i].users = 0 }),
        !.sounds = Without(@, { i \in DOMAIN @ : @[i].users = 0 })]

\* objects that are in no scene (lines 836-848)
objects_to_remove(d) == { o \in DOMAIN d.objects : ~d.objects[o].in_scene }

\* a purge that starts with the objects: the scene on entry, the same scene
\* again, the scene without the objects in no scene, and that scene purged
PurgeTraceObjectsFirst(d) ==
  LET d1 == [d EXCEPT !.objects = Without(@, objects_to_remove(d))]
  IN <<d, d, d1, orphans_purge(d1)>>

\* the scenes FILE_OT_purge_all_orphans.execute goes through: on entry,
\* after the built-in purge of step 0, after the removal of the objects in
\* no scene, after the built-in purge of step 2
PurgeTrace(d) ==
  LET d0 == orphans_purge(d)
      d1 == [d0 EXCEPT !.objects = Without(@, objects_to_remove(d0))]
  IN <<d, d0, d1, orphans_purge(d1)>>

\* a purge that counts the objects in no scene and leaves them in place
ExecutePurgeCounting(d, items) ==
  LET d0 == orphans_purge(d)
      gone == objects_to_remove(d0)
      d2 == orphans_purge(d0)
  IN Outcome(d2, items,
             Result("purge", 0, "FINISHED", "INFO", Cardinality(gone), 0, 0))

\* FILE_OT_purge_all_orphans.execute
ExecutePurge(d, items) ==
  LET d0 == orphans_purge(d)
      gone == objects_to_remove(d0)
      d1 == [d0 EXCEPT !.objects = Without(@, gone)]
      d2 == orphans_purge(d1)
  IN Outcome(d2, items,
             Result("purge", 0, "FINISHED", "INFO", Cardinality(gone), 0, 0))

\* -------------------------------------------------------------- operators
\* FILE_OT_scan_missing.execute
Scan ==
  /\ result.op # "dialog"
  /\ missing_files' = ScanItems(missing_files, data)
  /\ result' = Result("scan", 0, "FINISHED", "INFO", Len(ScanDict(data)), 0, 0)
  /\ UNCHANGED <<data, is_saved>>

\* paths the user may type or pick as an item's new path
Candidates ==
  { MkPath(FALSE, <<"lib">>, EmptyName),
    MkPath(FALSE, <<"lib", "sub", "deep">>, MkName("a", "", ".png")),
    MkPath(FALSE, <<"lib">>, MkName("c", "", ".png")) }

\* the user edits item.new_filepath in the panel (one item at a time holds
\* a path the user typed)
SetNewPath ==
  \E index \in DOMAIN missing_files, p \in Candidates :
    /\ result.op # "dialog"
    /\ missing_files[index].new_filepath # p
    /\ \A j \in DOMAIN missing_files \ {index} : missing_files[j].new_filepath = NoPath
    /\ missing_files' = [missing_files EXCEPT ![index].new_filepath = p]
    /\ result' = Result("set_path", 0, "FINISHED", "none", 0, 0, 0)
    /\ UNCHANGED <<data, is_saved>>

Apply(out) ==
  /\ data' = out.data
  /\ missing_files' = out.missing_files
  /\ result' = out.result
  /\ UNCHANGED is_saved

\* the reloads that raise during one operator call: none, or those of one of
\* the images an operator reloads (a local image storing the path of an item)
Failures(images, items) ==
  {{}} \cup { {img.name} : img \in { x \in Range(images) :
                  /\ x.library = NoLibrary
                  /\ \E i \in DOMAIN items : items[i].filepath = x.filepath } }

\* the mismatch dialog of invoke is open: a modal popup, nothing else can be
\* pressed until it is answered
DialogOpen == result.op = "dialog"

\* FILE_OT_scan_missing.execute ending in an exception: reading the
\* datablock that yields the index-th entry of the dict raises (a name that
\* cannot be decoded); the collection was cleared on entry, no add() is
\* reached and nothing catches the exception
ScanRaises ==
  /\ ~DialogOpen
  /\ \E index \in DOMAIN ScanDict(data) :
       /\ missing_files' = << >>
       /\ result' = Result("scan_raised", index, "EXCEPTION", "ERROR", 0, 0, 0)
  /\ UNCHANGED <<data, is_saved>>

\* the Relink button, FILE_OT_relink_single.invoke: an error report, the
\* mismatch dialog, or execute at once
Relink ==
  /\ ~DialogOpen
  /\ \E index \in DOMAIN missing_files, failing \in Failures(data.images, missing_files) :
       LET decision == InvokeDecision(missing_files[index])
       IN CASE decision = "ERROR" ->
                 /\ failing = {}
                 /\ Apply(Outcome(data, missing_files,
                          Result("relink", index, "CANCELLED", "ERROR", 0, 0, 0)))
            [] decision = "DIALOG" ->
                 /\ failing = {}
                 /\ Apply(Outcome(data, missing_files,
                          Result("dialog", index, "RUNNING_MODAL", "none", 0, 0, 0)))
            [] OTHER ->
                 Apply(ExecuteRelink(data, missing_files, index, is_saved, failing))

\* OK in the mismatch dialog: execute runs
ConfirmDialog ==
  /\ DialogOpen
  /\ \E failing \in Failures(data.images, missing_files) :
       Apply(ExecuteRelink(data, missing_files, result.index, is_saved, failing))

\* the mismatch dialog is dismissed: the operator is cancelled
CancelDialog ==
  /\ DialogOpen
  /\ Apply(Outcome(data, missing_files,
                   Result("relink", result.index, "CANCELLED", "none", 0, 0, 0)))

\* the Auto Find button
AutoSearch ==
  \E index \in DOMAIN missing_files, failing \in Failures(data.images, missing_files) :
    /\ ~DialogOpen
    /\ Apply(ExecuteAutoSearch(data, missing_files, index, is_saved, failing))

\* the Delete / Remove button, confirmed when the dialog is shown
RemoveFile ==
  \E index \in DOMAIN missing_files :
    /\ ~DialogOpen
    /\ Apply(ExecuteRemove(data, missing_files, index))

\* the Purge button, confirmed
Purge == ~DialogOpen /\ Apply(ExecutePurge(data, missing_files))

Next ==
  \/ Scan \/ ScanRaises \/ SetNewPath \/ Relink \/ ConfirmDialog \/ CancelDialog
  \/ AutoSearch \/ RemoveFile \/ Purge

Spec == Init /\ [][Next]_vars

SpecUnsaved == InitUnsaved /\ [][Next]_vars

SpecNames == InitNames /\ [][Next]_vars

SpecPurge == InitPurge /\ [][Next]_vars

SpecSearch == InitSearch /\ [][Next]_vars

\* ================================================================= claims
RelinkOps == {"relink", "relink_file", "relink_folder", "auto_search"}

\* images reachable via the shader node graphs of the materials
NodeImages(d) ==
  { ByName(d.images, n.image) :
      n \in UNION { { m.nodes[k] : k \in DOMAIN m.nodes } :
                      m \in { x \in Range(d.materials) : x.use_nodes /\ x.has_node_tree } }
           \cap { y \in UNION { Range(m.nodes) : m \in Range(d.materials) } :
                    y.type = "TEX_IMAGE" /\ y.image # NoName } }

\* every file reference of the scene: images of the node graphs, movie
\* clips, sounds and mesh cache modifiers
AllRefs(d) ==
  { [kind |-> "image", filepath |-> x.filepath, linked |-> x.library # NoLibrary,
     packed |-> x.packed_file] : x \in NodeImages(d) }
  \cup
  { [kind |-> "clip", filepath |-> x.filepath, linked |-> x.library # NoLibrary,
     packed |-> FALSE] : x \in Range(d.movieclips) }
  \cup
  { [kind |-> "sound", filepath |-> x.filepath, linked |-> x.library # NoLibrary,
     packed |-> x.packed_file] : x \in Range(d.sounds) }
  \cup
  { [kind |-> "modifier", filepath |-> o.modifiers[k].filepath,
     linked |-> o.library # NoLibrary, packed |-> FALSE] :
       <<o, k>> \in UNION { {x} \X DOMAIN x.modifiers :
                             x \in { y \in Range(d.objects) :
                                       \E j \in DOMAIN y.modifiers :
                                          y.modifiers[j].type = "MESH_CACHE" } } }

RefsStoring(d, p) == { r \in AllRefs(d) : r.filepath = p }

\* the items a scan of d builds, written out from the dict
FreshItems(d) == [ i \in DOMAIN ScanDict(d) |-> MakeItem(ScanDict(d)[i]) ]

Strip(items) == [ i \in DOMAIN items |-> [items[i] EXCEPT !.new_filepath = NoPath] ]

ItemPaths(items) == { items[i].filepath : i \in DOMAIN items }

\* C1: no two records of the collection share the same original path,
\* whatever number and kinds of references hold that path.
C1_UniquePaths ==
  \A i, j \in DOMAIN missing_files :
    missing_files[i].filepath = missing_files[j].filepath => i = j

\* C1 witness: a scan has run on a scene where a sound and a cache modifier
\* hold the same missing path, and the collection has a record for it.
C1_Witness ==
  /\ result.op = "scan"
  /\ \E i \in DOMAIN missing_files :
       /\ Storing(data.sounds, missing_files[i].filepath) # {}
       /\ ModifiersStoring(data.objects, missing_files[i].filepath) # {}

\* C2 (as claimed): a relink or auto search never changes the path of a
\* library-owned image, movie clip, sound or modifier, and when it completes
\* every local reference that stored the initiating record's original path
\* has been given another path.
C2_LinkedNeverChanged ==
  [][ result'.op \in RelinkOps =>
        /\ \A i \in DOMAIN data.images :
             data.images[i].library # NoLibrary
               => data'.images[i].filepath = data.images[i].filepath
        /\ \A i \in DOMAIN data.movieclips :
             data.movieclips[i].library # NoLibrary
               => data'.movieclips[i].filepath = data.movieclips[i].filepath
        /\ \A i \in DOMAIN data.sounds :
             data.sounds[i].library # NoLibrary
               => data'.sounds[i].filepath = data.sounds[i].filepath
        /\ \A o \in DOMAIN data.objects :
             data.objects[o].library # NoLibrary
               => data'.objects[o].modifiers = data.objects[o].modifiers
        /\ result'.returned = "FINISHED" =>
             LET old == missing_files[result'.index].filepath
             IN /\ \A i \in Local(data.images, Storing(data.images, old)) :
                     data'.images[i].filepath # old
                /\ \A i \in Local(data.movieclips, Storing(data.movieclips, old)) :
                     data'.movieclips[i].filepath # old
                /\ \A i \in Local(data.sounds, Storing(data.sounds, old)) :
                     data'.sounds[i].filepath # old
    ]_vars

\* C3 (as claimed): a relink or auto search that ends with a failure outcome
\* leaves every reference path of the scene and every record as it was.
C3_FailureChangesNothing ==
  [][ (result'.op \in RelinkOps /\ result'.returned = "CANCELLED")
        => (data' = data /\ missing_files' = missing_files) ]_vars

\* C4 (as claimed): once operators have run, every step that changes the
\* scene leaves a record collection equal to what a fresh scan of the new
\* scene produces (the typed new paths aside).
C4_RescanAfterMutation ==
  [][ (result.op # "none" /\ data' # data)
        => Strip(missing_files') = Strip(FreshItems(data')) ]_vars

\* C5 (as claimed): in a relink by file that has started to write, a reload
\* failure blocks nothing: every local image, movie clip, sound and modifier
\* that stored the record's original path stores the new path afterwards.
C5_ReloadFailureBlocksNothing ==
  [][ (result'.op = "relink_file" /\ (result'.returned = "FINISHED" \/ data' # data)) =>
        LET old == missing_files[result'.index].filepath
            new == missing_files[result'.index].new_filepath
        IN /\ \A i \in Local(data.images, Storing(data.images, old)) :
                data'.images[i].filepath = new
           /\ \A i \in Local(data.movieclips, Storing(data.movieclips, old)) :
                data'.movieclips[i].filepath = new
           /\ \A i \in Local(data.sounds, Storing(data.sounds, old)) :
                data'.sounds[i].filepath = new
           /\ \A om \in ModifiersStoring(data.objects, old) :
                data'.objects[om[1]].modifiers[om[2]].filepath = new
    ]_vars

\* C6 (as claimed): after a scan, a path has a record if and only if some
\* non-embedded file reference of the scene stores it and it is not on disk.
C6_ScanComplete ==
  result.op = "scan" =>
    \A p \in ItemPaths(missing_files) \cup { r.filepath : r \in AllRefs(data) } :
      (p \in ItemPaths(missing_files))
        <=> (/\ \E r \in RefsStoring(data, p) : ~r.packed
             /\ p # NoPath
             /\ ~check_udim_exists(p))

\* C7: for every record, is_used is true if and only if the record's set of
\* referencing objects is non-empty.
C7_IsUsedIffObjects ==
  \A i \in DOMAIN missing_files :
    missing_files[i].is_used <=> (missing_files[i].object_names # {})

\* C7 witness: a scan has produced a record that is used and one that is not.
C7_Witness ==
  /\ result.op = "scan"
  /\ \E i, j \in DOMAIN missing_files :
       /\ missing_files[i].is_used /\ missing_files[i].object_names # {}
       /\ ~missing_files[j].is_used /\ missing_files[j].object_names = {}

\* C8: a scan leaves the scene as it is and replaces the collection by the
\* records built from the current scene alone; no record keeps a new path
\* typed before the scan.
C8_ScanReplacesCollection ==
  [][ result'.op = "scan" =>
        /\ data' = data
        /\ is_saved' = is_saved
        /\ missing_files' = FreshItems(data)
        /\ \A i \in DOMAIN missing_files' : missing_files'[i].new_filepath = NoPath
    ]_vars

\* C8 witness: a scan has run and built at least two records.
C8_Witness ==
  /\ result.op = "scan"
  /\ Len(missing_files) >= 2
  /\ missing_files = FreshItems(data)

\* C9 (as claimed): after a scan, no record exists only because of packed
\* references: some unpacked reference stores the record's path.
C9_PackedNeverRecorded ==
  result.op = "scan" =>
    \A i \in DOMAIN missing_files :
      \E r \in RefsStoring(data, missing_files[i].filepath) : ~r.packed

\* C10 (as claimed): after a scan, a record whose path is stored by
\* library-owned references only is classified Linked, and a record whose
\* path is stored by local references only is not.
C10_LinkedClassification ==
  result.op = "scan" =>
    \A i \in DOMAIN missing_files :
      LET item == missing_files[i]
          refs == RefsStoring(data, item.filepath)
          classified == item.is_linked /\ item.file_type = "LINKED"
                        /\ item.library_path # ""
      IN /\ (\A r \in refs : r.linked) => classified
         /\ (\A r \in refs : ~r.linked) => ~item.is_linked /\ item.file_type # "LINKED"

\* paths of the other records that the directory-scoped auto-relink handles
\* after a relink of items[index] to a file of directory new_dir
AutoHandled(items, index, new_dir) ==
  { items[k].filepath : k \in { j \in DOMAIN items :
        /\ items[j].filepath # items[index].filepath
        /\ check_udim_exists(join(new_dir, basename(items[j].filepath))) } }

\* C11: after a relink by file that completes, every local image, movie
\* clip, sound and cache modifier that stored the record's original path
\* stores the candidate path, and every reference whose stored path differs
\* from the original path and is not handled by the directory-scoped
\* auto-relink is unchanged.
C11_RelinkFileAppliesEverywhere ==
  [][ (result'.op = "relink_file" /\ result'.returned = "FINISHED") =>
        LET item == missing_files[result'.index]
            old == item.filepath
            new == item.new_filepath
            other(p) == p # old
                        /\ p \notin AutoHandled(missing_files, result'.index,
                                                dirname(abspath(new)))
        IN /\ \A i \in DOMAIN data.images :
                /\ (data.images[i].filepath = old /\ data.images[i].library = NoLibrary)
                     => data'.images[i].filepath = new
                /\ other(data.images[i].filepath) => data'.images[i] = data.images[i]
           /\ \A i \in DOMAIN data.movieclips :
                /\ (data.movieclips[i].filepath = old /\ data.movieclips[i].library = NoLibrary)
                     => data'.movieclips[i].filepath = new
                /\ other(data.movieclips[i].filepath)
                     => data'.movieclips[i] = data.movieclips[i]
           /\ \A i \in DOMAIN data.sounds :
                /\ (data.sounds[i].filepath = old /\ data.sounds[i].library = NoLibrary)
                     => data'.sounds[i].filepath = new
                /\ other(data.sounds[i].filepath) => data'.sounds[i] = data.sounds[i]
           /\ \A o \in DOMAIN data.objects : \A k \in DOMAIN data.objects[o].modifiers :
                LET m == data.objects[o].modifiers[k]
                IN /\ (m.filepath = old /\ data.objects[o].library = NoLibrary)
                        => data'.objects[o].modifiers[k].filepath = new
                   /\ other(m.filepath) => data'.objects[o].modifiers[k] = m
           /\ data'.materials = data.materials
    ]_vars

\* C11 witness: a relink by file has completed after writing the candidate
\* path to two references (a sound and a cache modifier, or two images).
C11_Witness ==
  /\ result.op = "relink_file"
  /\ result.returned = "FINISHED"
  /\ result.updated >= 2

\* library-owned images, movie clips and sounds that store the path
LinkedStoring(d, p) ==
  Cardinality(Storing(d.images, p) \ Local(d.images, Storing(d.images, p)))
  + Cardinality(Storing(d.movieclips, p) \ Local(d.movieclips, Storing(d.movieclips, p)))
  + Cardinality(Storing(d.sounds, p) \ Local(d.sounds, Storing(d.sounds, p)))

\* C12 (as claimed): a relink by file or by folder that completes reports a
\* skipped count equal to the number of library-owned references that store
\* the original path of the record being relinked.
C12_SkippedCountReported ==
  [][ (result'.op \in {"relink_file", "relink_folder"} /\ result'.returned = "FINISHED")
        => result'.linked = LinkedStoring(data, missing_files[result'.index].filepath)
    ]_vars

\* original paths of the records whose basename is present somewhere under
\* the folder top
FoundUnder(items, top) ==
  { items[k].filepath : k \in { j \in DOMAIN items :
        \E dir \in Range(walk(top)) : find_udim_file(items[j].filepath, dir) # None } }

\* C13 (as claimed): a folder relink over records of which K > 0 have their
\* basename under the folder completes and reports K, whichever record it
\* was initiated from, and the records of the rescan are exactly the others,
\* library-owned or not.
C13_BulkRelinkAll ==
  [][ result'.op = "relink_folder" =>
        LET found == FoundUnder(missing_files,
                                abspath(missing_files[result'.index].new_filepath).dir)
        IN found # {} =>
             /\ result'.returned = "FINISHED"
             /\ result'.auto = Cardinality(found)
             /\ ItemPaths(missing_files') = ItemPaths(missing_files) \ found
    ]_vars

\* C13 (amended): a folder relink initiated from a record whose basename is
\* not under the folder fails and changes nothing; otherwise it completes,
\* reports K, every local image, clip and sound and every modifier that
\* stored the path of a found record stores an existing file of the same
\* basename, a found record's path is still recorded only if a library-owned
\* reference stores it, and the references of the other records are unchanged.
C13_BulkRelinkFound ==
  [][ result'.op = "relink_folder" =>
        LET item == missing_files[result'.index]
            found == FoundUnder(missing_files, abspath(item.new_filepath).dir)
            moved(old, new) == /\ new # old
                               /\ basename(new) = basename(old)
                               /\ check_udim_exists(new)
            kept(coll, coll2) ==
              \A i \in DOMAIN coll :
                IF coll[i].filepath \in found /\ coll[i].library = NoLibrary
                THEN moved(coll[i].filepath, coll2[i].filepath)
                ELSE coll2[i] = coll[i]
        IN IF item.filepath \notin found
           THEN /\ result'.returned = "CANCELLED"
                /\ data' = data /\ missing_files' = missing_files
           ELSE /\ result'.returned = "FINISHED"
                /\ result'.auto = Cardinality(found)
                /\ kept(data.images, data'.images)
                /\ kept(data.movieclips, data'.movieclips)
                /\ kept(data.sounds, data'.sounds)
                /\ \A o \in DOMAIN data.objects : \A k \in DOMAIN data.objects[o].modifiers :
                     LET m == data.objects[o].modifiers[k]
                         m2 == data'.objects[o].modifiers[k]
                     IN IF m.filepath \in found
                        THEN moved(m.filepath, m2.filepath) ELSE m2 = m
                /\ \A q \in found : q \in ItemPaths(missing_files')
                                      => LinkedStoring(data, q) > 0
    ]_vars

\* C13 witness: a folder relink has completed with one record found and
\* relinked and another record still missing after the rescan.
C13_Witness ==
  /\ result.op = "relink_folder"
  /\ result.returned = "FINISHED"
  /\ result.auto >= 1 /\ result.updated >= 1
  /\ \E i \in DOMAIN missing_files :
       missing_files[i].filepath \notin FoundUnder(missing_files, <<"lib">>)

\* the directory is top or lies at some depth below it
Under(dir, top) == Len(dir) >= Len(top) /\ SubSeq(dir, 1, Len(top)) = top

\* the files named like filepath in the directories at any depth below top
NestedMatches(filepath, top) ==
  { find_udim_file(filepath, dir) : dir \in { x \in DirsOnDisk : Under(x, top) } } \ {None}

\* C14: a relink with a folder candidate, for a record whose basename lies at
\* any depth below the folder, completes, and every local reference that
\* stored the record's path points at a file of that name below the folder.
C14_FolderResolvesNested ==
  [][ result'.op = "relink_folder" =>
        LET old == missing_files[result'.index].filepath
            top == abspath(missing_files[result'.index].new_filepath).dir
            nested == NestedMatches(old, top)
        IN nested # {} =>
             /\ result'.returned = "FINISHED"
             /\ \A i \in Local(data.images, Storing(data.images, old)) :
                  abspath(data'.images[i].filepath) \in nested
             /\ \A i \in Local(data.movieclips, Storing(data.movieclips, old)) :
                  abspath(data'.movieclips[i].filepath) \in nested
             /\ \A i \in Local(data.sounds, Storing(data.sounds, old)) :
                  abspath(data'.sounds[i].filepath) \in nested
             /\ \A om \in ModifiersStoring(data.objects, old) :
                  abspath(data'.objects[om[1]].modifiers[om[2]].filepath) \in nested
    ]_vars

\* C14 witness: a folder relink of /lib has completed and a sound or cache
\* modifier points at b.wav, which lies two levels below the folder only.
C14_Witness ==
  /\ result.op = "relink_folder"
  /\ result.returned = "FINISHED"
  /\ LET deep == join(<<"lib", "sub", "deep">>, MkName("b", "", ".wav"))
     IN \/ \E i \in DOMAIN data.sounds : abspath(data.sounds[i].filepath) = deep
        \/ ModifiersStoring(data.objects, relpath(deep)) # {}

\* the match in the first directory of the traversal that holds one
FirstMatch(filepath, dirs) ==
  LET hits == { k \in DOMAIN dirs : find_udim_file(filepath, dirs[k]) # None }
  IN IF hits = {} THEN None ELSE find_udim_file(filepath, dirs[Min(hits)])

\* C15: in a folder relink or an auto search that relinks, every record
\* resolves to the match in the first directory the traversal visits: each
\* local reference that stored the record's path stores that one path, and
\* no match of a directory visited later replaces it.
C15_FirstMatchWins ==
  [][ (result'.op \in {"relink_folder", "auto_search"}
       /\ (result'.returned = "FINISHED" \/ data' # data)) =>
        LET dirs == IF result'.op = "auto_search" THEN SearchedDirs
                    ELSE walk(abspath(missing_files[result'.index].new_filepath).dir)
        IN \A r \in DOMAIN missing_files :
             LET old == missing_files[r].filepath
                 first == FirstMatch(old, dirs)
                 target == IF first = None THEN old
                           ELSE IF is_saved THEN relpath(first) ELSE first
             IN /\ \A i \in Local(data.images, Storing(data.images, old)) :
                     data'.images[i].filepath = target
                /\ \A i \in Local(data.movieclips, Storing(data.movieclips, old)) :
                     data'.movieclips[i].filepath = target
                /\ \A i \in Local(data.sounds, Storing(data.sounds, old)) :
                     data'.sounds[i].filepath = target
                /\ \A om \in ModifiersStoring(data.objects, old) :
                     data'.objects[om[1]].modifiers[om[2]].filepath = target
    ]_vars

\* C15 witness: a folder relink of /lib has completed and an image points at
\* a.png of /lib/alt, the first visited of the two directories that hold it.
C15_Witness ==
  /\ result.op = "relink_folder"
  /\ result.returned = "FINISHED"
  /\ \E i \in DOMAIN data.images :
       data.images[i].filepath = relpath(join(<<"lib", "alt">>, MkName("a", "", ".png")))
  /\ Cardinality(NestedMatches(PathA, <<"lib">>)) = 2

\* the characters of the tiles that occur in file names
Chars(tile) ==
  CASE tile = "1001" -> <<"1", "0", "0", "1">>
    [] tile = "1002" -> <<"1", "0", "0", "2">>
    [] tile = "101" -> <<"1", "0", "1">>
    [] OTHER -> << >>

\* the tile is exactly four decimal digits
IsFourDigits(tile) ==
  /\ Len(Chars(tile)) = 4
  /\ \A i \in DOMAIN Chars(tile) :
       Chars(tile)[i] \in {"0", "1", "2", "3", "4", "5", "6", "7", "8", "9"}

\* the path exists: literally without the UDIM token, and with it as some
\* file whose name is the path with the token replaced by four digits
OnDisk(p) ==
  IF p.name.tile # UDIM
  THEN abspath(p) \in FilesOnDisk \/ (p.name = EmptyName /\ abspath(p).dir \in DirsOnDisk)
  ELSE \E f \in FilesOnDisk :
         /\ IsFourDigits(f.name.tile)
         /\ abspath(p) = [f EXCEPT !.name.tile = UDIM]

\* every path the operators hand to the existence check
PathsInUse ==
  ({ r.filepath : r \in AllRefs(data) }
   \cup { x.filepath : x \in Range(data.images) }
   \cup ItemPaths(missing_files)
   \cup { missing_files[i].new_filepath : i \in DOMAIN missing_files }
   \cup { join(dir, basename(missing_files[i].filepath)) :
            i \in DOMAIN missing_files, dir \in DirsOnDisk }) \ {NoPath}

\* C16 (as claimed): the existence check is true for a path without the
\* UDIM token iff that path exists, and for a path with the token iff a file
\* exists whose name is the path with the token replaced by exactly four
\* decimal digits.
C16_ExistenceCheck ==
  \A p \in PathsInUse : check_udim_exists(p) <=> OnDisk(p)

SameCI(x, y) == x = y \/ {x, y} \in { {"A", "a"}, {"B", "b"}, {".PNG", ".png"} }

\* the candidate's basename or extension differs from the original's, and
\* it is not just an extension added to a matching base name
NeedsConfirmation(item) ==
  LET o == basename(item.filepath)
      n == basename(item.new_filepath)
      base_same == SameCI(o.stem, n.stem) /\ o.tile = n.tile
      ext_same == SameCI(o.ext, n.ext)
  IN ~((base_same /\ ext_same) \/ (o.ext = "" /\ base_same))

\* C18: the relink button opens the confirmation dialog exactly for existing
\* file candidates whose name needs confirmation, no reference or record
\* changes while the dialog is open or when it is dismissed, and a relink by
\* file that runs without the dialog is one that needs no confirmation.
C18_ConfirmBeforeMismatch ==
  [][ /\ result'.op = "dialog" =>
           /\ data' = data /\ missing_files' = missing_files
           /\ NeedsConfirmation(missing_files[result'.index])
           /\ exists(abspath(missing_files[result'.index].new_filepath))
      /\ (result.op # "dialog" /\ result'.op = "relink_file") =>
           ~NeedsConfirmation(missing_files[result'.index])
      /\ (result.op = "dialog" /\ result'.op = "relink") =>
           data' = data /\ missing_files' = missing_files
    ]_vars

\* C18 witness: the dialog is open for a candidate a.png whose extension
\* alone differs from the original's (a.jpg), and the image still stores the
\* original path.
C18_Witness ==
  /\ result.op = "dialog"
  /\ LET item == missing_files[result.index]
     IN /\ basename(item.filepath) = MkName("a", "", ".jpg")
        /\ basename(item.new_filepath) = MkName("a", "", ".png")
        /\ Local(data.images, Storing(data.images, item.filepath)) # {}

\* C19 (as claimed): when the datablock behind one entry fails while it is
\* scanned, the scan still leaves a record for every other missing path.
C19_ScanIsolatesFailures ==
  [][ result'.op = "scan_raised" =>
        \A j \in DOMAIN FreshItems(data) \ {result'.index} :
          FreshItems(data)[j].filepath \in ItemPaths(missing_files')
    ]_vars

\* C20: in the state a purge leaves, a second purge removes nothing: it
\* reports 0 removed objects and leaves the scene and the records as the
\* first purge left them.
C20_PurgeTwice ==
  result.op = "purge" =>
    LET second == ExecutePurge(data, missing_files)
    IN /\ second.result.updated = 0
       /\ second.data = data
       /\ second.missing_files = missing_files

\* C20 witness: a purge has just removed an object that was in no scene.
C20_Witness ==
  /\ result.op = "purge"
  /\ result.updated >= 1
  /\ objects_to_remove(data) = {}

\* the kinds of datablock the built-in purge looks at
PurgedKinds == {"materials", "images", "movieclips", "sounds"}

\* objects of the pool that belong to no scene
NonSceneObjects(d) == { o.name : o \in { x \in Range(d.objects) : ~x.in_scene } }

\* materials that no object holds in a slot
ZeroUserMaterials(d) ==
  { m.name : m \in { x \in Range(d.materials) :
                       \A o \in Range(d.objects) : x.name \notin Range(o.materials) } }

\* datablocks without users, and those whose only users are such datablocks
ZeroUsers(d) ==
  [materials |-> ZeroUserMaterials(d),
   images |-> { i.name : i \in { x \in Range(d.images) :
                  \A m \in Range(d.materials) :
                    (\E n \in Range(m.nodes) : n.image = x.name)
                      => m.name \in ZeroUserMaterials(d) } },
   movieclips |-> { c.name : c \in { x \in Range(d.movieclips) : x.users = 0 } },
   sounds |-> { c.name : c \in { x \in Range(d.sounds) : x.users = 0 } }]

\* after is before without its zero-user datablocks, objects untouched
RemovesZeroUsers(before, after) ==
  /\ after.objects = before.objects
  /\ \A k \in PurgedKinds :
       /\ Names(after[k]) = Names(before[k]) \ ZeroUsers(before)[k]
       /\ Range(after[k]) \subseteq Range(before[k])

\* after is before without its objects in no scene, datablocks untouched
RemovesNonSceneObjects(before, after) ==
  /\ \A k \in PurgedKinds : after[k] = before[k]
  /\ Names(after.objects) = Names(before.objects) \ NonSceneObjects(before)
  /\ Range(after.objects) \subseteq Range(before.objects)

\* some datablock of before is gone in after
RemovesDatablocks(before, after) ==
  \E k \in PurgedKinds : Names(after[k]) # Names(before[k])

\* C21 (as claimed): the purge removes no zero-user datablock while an
\* object that belongs to no scene is still in the pool.
C21_ObjectsBeforeDatablocks ==
  [][ result'.op = "purge" =>
        LET t == PurgeTrace(data)
        IN \A k \in 1..(Len(t) - 1) :
             RemovesDatablocks(t[k], t[k + 1]) => NonSceneObjects(t[k]) = {}
    ]_vars

\* C21 (amended): the purge removes, in this order, the datablocks with
\* zero users, then the objects that belong to no scene, then the
\* datablocks with zero users again, and leaves the scene of the last step.
C21_PurgeOrder ==
  [][ result'.op = "purge" =>
        LET t == PurgeTrace(data)
        IN /\ Len(t) = 4
           /\ t[1] = data
           /\ RemovesZeroUsers(t[1], t[2])
           /\ RemovesNonSceneObjects(t[2], t[3])
           /\ RemovesZeroUsers(t[3], t[4])
           /\ data' = t[4]
           /\ result'.updated = Cardinality(NonSceneObjects(t[2]))
    ]_vars

\* C21 witness: a purge has removed an object in no scene; the image of a
\* material without users and the image that only that object's material
\* used, both on record from an earlier scan, are gone with it.
C21_Witness ==
  /\ result.op = "purge"
  /\ result.updated >= 1
  /\ \E i, j \in DOMAIN missing_files :
       /\ missing_files[i].object_names # {}
       /\ Storing(data.images, missing_files[i].filepath) = {}
       /\ missing_files[j].object_names = {}
       /\ missing_files[j].material_names # {}
       /\ Storing(data.images, missing_files[j].filepath) = {}

\* C22: an auto search in a blend file that was never saved is cancelled
\* with an error report and changes no reference and no record; an auto
\* search in a saved file whose initiating record matches no file below the
\* blend file's directory is cancelled with a warning, a different report.
C22_DistinctFailures ==
  [][ (result'.op = "auto_search"
         /\ basename(missing_files[result'.index].filepath) # EmptyName) =>
        /\ ~is_saved =>
             /\ result'.returned = "CANCELLED" /\ result'.level = "ERROR"
             /\ data' = data /\ missing_files' = missing_files
        /\ (is_saved /\ NestedMatches(missing_files[result'.index].filepath, BlendDir) = {}) =>
             /\ result'.returned = "CANCELLED" /\ result'.level = "WARNING"
    ]_vars

\* C22 witness: an auto search was started from a record of a blend file
\* that was never saved, and was refused.
C22_Witness ==
  /\ ~is_saved
  /\ result.op = "auto_search"
  /\ result.level = "ERROR"
  /\ result.index \in DOMAIN missing_files
  /\ Len(missing_files) >= 2

\* C23 (as claimed): when an auto search finishes, the record it was started
\* from is in the collection and its new path is a file named like the
\* original below the blend file's directory.
C23_CandidateHoldsFoundPath ==
  [][ (result'.op = "auto_search" /\ result'.returned = "FINISHED") =>
        LET old == missing_files[result'.index].filepath
        IN \E i \in DOMAIN missing_files' :
             /\ missing_files'[i].filepath = old
             /\ missing_files'[i].new_filepath # NoPath
             /\ abspath(missing_files'[i].new_filepath) \in NestedMatches(old, BlendDir)
    ]_vars

\* C24 (as claimed): after a scan, the record of a missing path stored by a
\* local, non-packed image of a shader node whose source is a movie has the
\* type MOVIE.
C24_MovieTexturesTypedMovie ==
  result.op = "scan" =>
    \A image \in NodeImages(data) :
      (/\ image.source = "MOVIE" /\ ~image.packed_file /\ image.library = NoLibrary
       /\ image.filepath # NoPath /\ ~OnDisk(image.filepath))
        => \E i \in DOMAIN missing_files :
             /\ missing_files[i].filepath = image.filepath
             /\ missing_files[i].file_type = "MOVIE"

\* C25: after a relink by file or by folder that finishes, unless a
\* library-owned reference still stores the initiating record's original
\* path, no record of the rescanned collection has that path and the
\* collection has fewer records than before.
C25_RelinkedRecordGone ==
  [][ (result'.op \in {"relink_file", "relink_folder"} /\ result'.returned = "FINISHED") =>
        LET old == missing_files[result'.index].filepath
        IN (\A r \in RefsStoring(data', old) : ~r.linked) =>
             /\ old \notin ItemPaths(missing_files')
             /\ Len(missing_files') < Len(missing_files)
    ]_vars

\* C25 witness: a relink of the second record has finished, it updated a
\* reference, and the rescanned collection has one record left.
C25_Witness ==
  /\ result.op \in {"relink_file", "relink_folder"}
  /\ result.returned = "FINISHED"
  /\ result.updated >= 1
  /\ result.index = 2
  /\ Len(missing_files) = 1

====
